---- MODULE Spec2Model ----
(***************************************************************************)
(* A model of modview's ModificationPipeline (src/src/modview/core.py):    *)
(* the sample loader, the column standardizer, the filter engine and the   *)
(* reference loader, as a state machine over one pipeline object and the   *)
(* files it reads.                                                         *)
(*                                                                         *)
(* Conventions.  A Python str is a sequence of one-character strings.  An  *)
(* Optional[T] is a sequence of length <= 1: None is << >>, a value v is   *)
(* <<v>>.  A DataFrame is [columns, rows]: the column labels in order and  *)
(* the rows in order, each row the sequence of its cells, one per column.  *)
(* Counts and cells are integers; removal_percentage is the exact         *)
(* quotient, kept as numerator and denominator.                            *)
(***************************************************************************)
EXTENDS Integers, Sequences, FiniteSets, TLC

VARIABLES
    fs,            \* the files: path -> [exists, err, df] (what os.path.exists and pd.read_csv give)
    samples,       \* self.samples: [order, rec], a dict in insertion order
    reference,     \* self.reference: Optional[DataFrame]
    config,        \* self.config: Filterconfig
    call,          \* the last call: its operation and arguments
    raised,        \* the exception the last call ended with: [kind, cause]
    failed_files,  \* failed_files of the last load_bed_files call
    ret            \* the value the last call returned, when it is not self.samples

vars == <<fs, samples, reference, config, call, raised, failed_files, ret>>

pipeline == <<samples, reference, config>>

----------------------------------------------------------------------------
(* Bounds of the model. *)

\* longest bedfiles list passed to load_bed_files
MaxFiles == 2

\* most rows in a file
MaxRows == 2

\* longest candidate list passed as conditions or modifications
MaxCands == 2

\* widest raw table handed to standardize_columns
MaxWidth == 19

----------------------------------------------------------------------------
(* Python values. *)

None == << >>

Some(v) == <<v>>

Range(s) == {s[i] : i \in 1..Len(s)}

SeqsUpTo(S, n) == UNION {[1..k -> S] : k \in 0..n}

\* str.lower() on the letters the model's strings use
LowerChar(c) ==
    CASE c = "A" -> "a"
      [] c = "B" -> "b"
      [] c = "C" -> "c"
      [] OTHER -> c

Lower(s) == [i \in 1..Len(s) |-> LowerChar(s[i])]

\* the str operator `in`: s occurs in t as a contiguous run
IsSubstring(s, t) ==
    \E i \in 0..(Len(t) - Len(s)) : SubSeq(t, i + 1, i + Len(s)) = s

\* the last index of character c in s, 0 when there is none (str.rfind, 1-based)
RFind(s, c) ==
    LET hits == {i \in 1..Len(s) : s[i] = c}
    IN  IF hits = {} THEN 0 ELSE CHOOSE i \in hits : \A j \in hits : j <= i

\* os.path.basename: what follows the last "/"
Basename(path) == SubSeq(path, RFind(path, "/") + 1, Len(path))

\* os.path.splitext(p)[0]: p up to its last dot, unless only dots precede that dot
SplitextRoot(p) ==
    LET dot == RFind(p, ".")
    IN  IF dot > 0 /\ (\E k \in 1..(dot - 1) : p[k] # ".")
        THEN SubSeq(p, 1, dot - 1)
        ELSE p

\* line 107
FileName(path) == SplitextRoot(Basename(path))

----------------------------------------------------------------------------
(* DataFrames. *)

\* the label of positional column i of a table read with header=None
IntLabel(i) == ToString(i)

DataFrame(cols, rws) == [columns |-> cols, rows |-> rws]

\* DataFrame.empty: an axis of length 0
Empty(df) == Len(df.rows) = 0 \/ Len(df.columns) = 0

HasColumn(df, col) == col \in Range(df.columns)

\* the position of column col (the first so labelled)
ColumnIndex(df, col) ==
    CHOOSE i \in 1..Len(df.columns) :
        df.columns[i] = col /\ \A j \in 1..(i - 1) : df.columns[j] # col

\* df[col] of one row
Cell(df, row, col) == row[ColumnIndex(df, col)]

\* df.rename(columns=rename_map): rename_map is a function on some labels
Rename(df, rename_map) ==
    DataFrame([i \in 1..Len(df.columns) |->
                  IF df.columns[i] \in DOMAIN rename_map
                  THEN rename_map[df.columns[i]]
                  ELSE df.columns[i]],
              df.rows)

\* df[cols]: the listed columns, in the listed order
Select(df, cols) ==
    LET at == [k \in 1..Len(cols) |-> ColumnIndex(df, cols[k])]
    IN  DataFrame(cols, [r \in 1..Len(df.rows) |->
                            [k \in 1..Len(cols) |-> df.rows[r][at[k]]]])

MODKIT_COLUMNS ==
    <<"Chromosome", "Start", "End", "Modified_Base_Code", "Score", "Strand",
      "Start_dup", "End_dup", "Color", "Coverage", "Percent_Modified", "Nmod",
      "Ncanonical", "Nother", "Ndelete", "Nfail", "Ndiff", "Nnocall">>

\* MODKIT_COLUMNS is keyed 0..17; the tuple above is indexed 1..18
InModkit(i) == i + 1 \in DOMAIN MODKIT_COLUMNS

ModkitName(i) == MODKIT_COLUMNS[i + 1]

essential_cols == <<"Chromosome", "Start", "End", "Score", "Percent_Modified">>

\* standardize_columns returning every renamed column
standardize_columns_KeepAll(df) ==
    LET n_cols == Len(df.columns)
        keys == {i \in 0..(n_cols - 1) : InModkit(i)}
        rename_map == [l \in {IntLabel(i) : i \in keys} |->
                          ModkitName(CHOOSE i \in keys : IntLabel(i) = l)]
    IN  Rename(df, rename_map)

standardize_columns(df) ==
    LET n_cols == Len(df.columns)
        keys == {i \in 0..(n_cols - 1) : InModkit(i)}
        rename_map == [l \in {IntLabel(i) : i \in keys} |->
                          ModkitName(CHOOSE i \in keys : IntLabel(i) = l)]
        renamed == Rename(df, rename_map)
        IsAvailable(col) == HasColumn(renamed, col)
        available_essential == SelectSeq(essential_cols, IsAvailable)
    IN  Select(renamed, available_essential)

----------------------------------------------------------------------------
(* Exceptions.  kind is the error of the call; cause is the exception an   *)
(* except clause caught and wrapped into it.                               *)

Raise(kind) == [kind |-> kind, cause |-> "None"]

NoError == Raise("None")

\* raise ... from inside an except clause handling e
Wrap(kind, e) == [kind |-> kind, cause |-> e.kind]

----------------------------------------------------------------------------
(* Filterconfig, FilterStatistics, BedSample. *)

Filterconfig(cov, freq) == [min_coverage |-> cov, min_modification_frequency |-> freq]

\* the defaults of the dataclass fields
DefaultMinCoverage == 20

DefaultMinModificationFrequency == 10

DefaultConfig == Filterconfig(DefaultMinCoverage, DefaultMinModificationFrequency)

\* __post_init__ returns without raising
PostInitOk(c) ==
    /\ 0 <= c.min_modification_frequency /\ c.min_modification_frequency <= 100
    /\ ~(c.min_coverage < 0)

\* removed_count / original_count * 100 as an exact quotient num/den
Quotient(n, d) == [num |-> n, den |-> d]

FilterStatistics(original_count, filtered_count, removed_count, removal_percentage) ==
    [original_count |-> original_count, filtered_count |-> filtered_count,
     removed_count |-> removed_count, removal_percentage |-> removal_percentage]

BedSample(name) ==
    [name |-> name, condition |-> None, modification |-> None,
     dataframe |-> None, filter_stats |-> None]

\* validate raising for a sample without a table as well
validate_NoneRaises(sample) ==
    IF sample.dataframe = None THEN "raise"
    ELSE IF Empty(sample.dataframe[1]) THEN "raise"
    ELSE "True"

\* BedSample.validate: "False", "True", or "raise"
validate(sample) ==
    IF sample.dataframe = None THEN "False"
    ELSE IF Empty(sample.dataframe[1]) THEN "raise"
    ELSE "True"

----------------------------------------------------------------------------
(* A dict in insertion order. *)

EmptyDict == [order |-> << >>, rec |-> << >>]

\* d[k] = v: a new key goes last, a key already there keeps its place
DictSet(d, k, v) ==
    [order |-> IF k \in Range(d.order) THEN d.order ELSE Append(d.order, k),
     rec |-> [x \in Range(d.order) \cup {k} |-> IF x = k THEN v ELSE d.rec[x]]]

Keys(d) == Range(d.order)

----------------------------------------------------------------------------
(* The files the calls read. *)

\* a file: whether it exists, the exception reading it raises, and its text
File(exists, err, text) == [exists |-> exists, err |-> err, text |-> text]

NoText == << >>

\* no file at the path
MissingFile == File(FALSE, "None", NoText)

\* pd.read_csv raises pd.errors.EmptyDataError
EmptyDataFile == File(TRUE, "EmptyDataError", NoText)

\* pd.read_csv raises another exception
UnreadableFile == File(TRUE, "Exception", NoText)

\* a modkit file: n columns, and each line's <<Score, Percent_Modified>>
BedFile(n, cells) == File(TRUE, "None", [n_cols |-> n, cells |-> cells])

\* a comma-separated file: its header line and the number of lines after it
RefFile(header, n_rows) == File(TRUE, "None", [header |-> header, n_rows |-> n_rows])

\* a row of a modkit file n columns wide: Score at position 4, Percent_Modified at 10
RawRow(n, cell) ==
    [k \in 1..n |->
        IF k - 1 = 4 THEN cell[1]
        ELSE IF k - 1 = 10 THEN cell[2]
        ELSE 100 + (k - 1)]

\* what pd.read_csv(header=None) gives for n columns and the rows' <<Score, Percent_Modified>>
RawTable(n, cells) ==
    DataFrame([i \in 1..n |-> IntLabel(i - 1)],
              [r \in 1..Len(cells) |-> RawRow(n, cells[r])])

\* <<Score, Percent_Modified>> just below and at the default thresholds
RowKinds == {<<19, 10>>, <<20, 9>>, <<20, 10>>}

\* pd.read_csv(path, sep=sep, header=None) of a file that parses
ReadBed(f) == RawTable(f.text.n_cols, f.text.cells)

\* a reference table read with its header row
RefTable(cols, n_rows) ==
    DataFrame(cols, [r \in 1..n_rows |-> [k \in 1..Len(cols) |-> (10 * r) + k]])

\* pd.read_csv(genome_path, sep=",") of a file that parses
ReadRef(f) == RefTable(f.text.header, f.text.n_rows)

----------------------------------------------------------------------------
(* load_bed_files. *)

\* `if conditions:` -- neither None nor an empty list
Truthy(opt) == opt # None /\ Len(opt[1]) > 0

\* DetectLoop without the break: the last match wins
RECURSIVE DetectLoop_Last(_, _, _)
DetectLoop_Last(cands, i, file_name_lower) ==
    IF i > Len(cands) THEN None
    ELSE LET later == DetectLoop_Last(cands, i + 1, file_name_lower)
         IN  IF later # None THEN later
             ELSE IF IsSubstring(Lower(cands[i]), file_name_lower) THEN Some(cands[i])
             ELSE None

\* the for/break loop over the candidates, from index i on
RECURSIVE DetectLoop(_, _, _)
DetectLoop(cands, i, file_name_lower) ==
    IF i > Len(cands) THEN None
    ELSE IF IsSubstring(Lower(cands[i]), file_name_lower) THEN Some(cands[i])
    ELSE DetectLoop(cands, i + 1, file_name_lower)

Detect(opt, file_name_lower) ==
    IF Truthy(opt) THEN DetectLoop(opt[1], 1, file_name_lower) ELSE None

\* one iteration of the loop over bedfiles; acc is [samples, failed_files]
LoadOne(files, path, conditions, modifications, acc) ==
    LET failed == [acc EXCEPT !.failed_files = Append(@, path)]
        file_name == FileName(path)
        file_name_lower == Lower(file_name)
        bedsample == [BedSample(file_name) EXCEPT
                         !.condition = Detect(conditions, file_name_lower),
                         !.modification = Detect(modifications, file_name_lower)]
        f == files[path]
    IN  IF ~f.exists THEN failed
        ELSE IF f.err = "EmptyDataError" THEN failed
        ELSE IF f.err # "None" THEN failed
        ELSE LET df == ReadBed(f)
             IN  IF Empty(df) THEN failed
                 ELSE [acc EXCEPT !.samples =
                          DictSet(@, file_name,
                                  [bedsample EXCEPT
                                      !.dataframe = Some(standardize_columns(df))])]

RECURSIVE LoadLoop(_, _, _, _, _, _)
LoadLoop(files, bedfiles, conditions, modifications, i, acc) ==
    IF i > Len(bedfiles) THEN acc
    ELSE LoadLoop(files, bedfiles, conditions, modifications, i + 1,
                  LoadOne(files, bedfiles[i], conditions, modifications, acc))

\* load_bed_files failing the call when any file failed
load_bed_files_AnyFailure(files, self_samples, bedfiles, conditions, modifications) ==
    IF Len(bedfiles) = 0
    THEN [raised |-> Raise("NoInputFiles"), samples |-> self_samples, failed_files |-> << >>]
    ELSE LET done == LoadLoop(files, bedfiles, conditions, modifications, 1,
                              [samples |-> EmptyDict, failed_files |-> << >>])
         IN  IF Len(done.failed_files) > 0
             THEN [raised |-> Raise("NoValidFiles"), samples |-> self_samples,
                   failed_files |-> done.failed_files]
             ELSE [raised |-> NoError, samples |-> done.samples,
                   failed_files |-> done.failed_files]

\* the call's outcome: [raised, samples, failed_files], samples being self.samples after it
load_bed_files(files, self_samples, bedfiles, conditions, modifications) ==
    IF Len(bedfiles) = 0
    THEN [raised |-> Raise("NoInputFiles"), samples |-> self_samples, failed_files |-> << >>]
    ELSE LET done == LoadLoop(files, bedfiles, conditions, modifications, 1,
                              [samples |-> EmptyDict, failed_files |-> << >>])
         IN  IF Len(done.samples.order) = 0
             THEN [raised |-> Raise("NoValidFiles"), samples |-> self_samples,
                   failed_files |-> done.failed_files]
             ELSE [raised |-> NoError, samples |-> done.samples,
                   failed_files |-> done.failed_files]

----------------------------------------------------------------------------
(* filter_samples. *)

\* Keep with a strict comparison of Score
Keep_Strict(df, row, cfg) ==
    /\ Cell(df, row, "Score") > cfg.min_coverage
    /\ Cell(df, row, "Percent_Modified") >= cfg.min_modification_frequency

\* the boolean mask of lines 200-203, for one row
Keep(df, row, cfg) ==
    /\ Cell(df, row, "Score") >= cfg.min_coverage
    /\ Cell(df, row, "Percent_Modified") >= cfg.min_modification_frequency

\* FilterOne taking the percentage of the rows kept for that of the rows removed
FilterOne_PercentKept(sample, cfg) ==
    LET df == sample.dataframe[1]
        original_count == Len(df.rows)
        KeepRow(row) == Keep(df, row, cfg)
        filtered_df == DataFrame(df.columns, SelectSeq(df.rows, KeepRow))
        filtered_count == Len(filtered_df.rows)
        removed_count == original_count - filtered_count
        removal_percentage == IF original_count > 0
                              THEN Quotient(filtered_count * 100, original_count)
                              ELSE Quotient(0, 1)
    IN  [sample EXCEPT
            !.filter_stats = Some(FilterStatistics(original_count, filtered_count,
                                                   removed_count, removal_percentage)),
            !.dataframe = Some(filtered_df)]

\* lines 196-217 for one validated sample with both columns
FilterOne(sample, cfg) ==
    LET df == sample.dataframe[1]
        original_count == Len(df.rows)
        KeepRow(row) == Keep(df, row, cfg)
        filtered_df == DataFrame(df.columns, SelectSeq(df.rows, KeepRow))
        filtered_count == Len(filtered_df.rows)
        removed_count == original_count - filtered_count
        removal_percentage == IF original_count > 0
                              THEN Quotient(removed_count * 100, original_count)
                              ELSE Quotient(0, 1)
    IN  [sample EXCEPT
            !.filter_stats = Some(FilterStatistics(original_count, filtered_count,
                                                   removed_count, removal_percentage)),
            !.dataframe = Some(filtered_df)]

\* FilterLoop passing over a sample that lacks a column
RECURSIVE FilterLoop_Skip(_, _, _)
FilterLoop_Skip(samps, cfg, i) ==
    IF i > Len(samps.order) THEN [raised |-> NoError, samples |-> samps]
    ELSE LET name == samps.order[i]
             sample == samps.rec[name]
             valid == validate(sample)
         IN  IF valid = "raise" THEN [raised |-> Raise("EmptyDataframe"), samples |-> samps]
             ELSE IF valid = "False" THEN FilterLoop_Skip(samps, cfg, i + 1)
             ELSE IF ~HasColumn(sample.dataframe[1], "Score")
                     \/ ~HasColumn(sample.dataframe[1], "Percent_Modified")
             THEN FilterLoop_Skip(samps, cfg, i + 1)
             ELSE FilterLoop_Skip([samps EXCEPT !.rec[name] = FilterOne(sample, cfg)],
                                  cfg, i + 1)

\* the loop over self.samples.items() from index i on: [raised, samples]
RECURSIVE FilterLoop(_, _, _)
FilterLoop(samps, cfg, i) ==
    IF i > Len(samps.order) THEN [raised |-> NoError, samples |-> samps]
    ELSE LET name == samps.order[i]
             sample == samps.rec[name]
             valid == validate(sample)
         IN  IF valid = "raise" THEN [raised |-> Raise("EmptyDataframe"), samples |-> samps]
             ELSE IF valid = "False" THEN FilterLoop(samps, cfg, i + 1)
             ELSE IF ~HasColumn(sample.dataframe[1], "Score")
                     \/ ~HasColumn(sample.dataframe[1], "Percent_Modified")
             THEN [raised |-> Raise("MissingColumn"), samples |-> samps]
             ELSE FilterLoop([samps EXCEPT !.rec[name] = FilterOne(sample, cfg)],
                             cfg, i + 1)

\* `if config:` -- a Filterconfig instance is always true, None is not
ConfigGiven(arg) == arg # None

\* filter_samples undoing its work when the loop raises
filter_samples_RollBack(self_samples, self_config, arg) ==
    IF Len(self_samples.order) = 0
    THEN [raised |-> Raise("NoSamplesLoaded"), samples |-> self_samples,
          config |-> self_config]
    ELSE LET cfg == IF ConfigGiven(arg) THEN arg[1] ELSE self_config
             done == FilterLoop(self_samples, cfg, 1)
         IN  IF done.raised = NoError
             THEN [raised |-> done.raised, samples |-> done.samples, config |-> cfg]
             ELSE [raised |-> done.raised, samples |-> self_samples,
                   config |-> self_config]

\* the call's outcome: [raised, samples, config]
filter_samples(self_samples, self_config, arg) ==
    IF Len(self_samples.order) = 0
    THEN [raised |-> Raise("NoSamplesLoaded"), samples |-> self_samples,
          config |-> self_config]
    ELSE LET cfg == IF ConfigGiven(arg) THEN arg[1] ELSE self_config
             done == FilterLoop(self_samples, cfg, 1)
         IN  [raised |-> done.raised, samples |-> done.samples, config |-> cfg]

----------------------------------------------------------------------------
(* load_reference. *)

column_map(c) ==
    CASE c = "Chromosome/scaffold name" -> "Chromosome"
      [] c = "Gene start (bp)" -> "Start"
      [] c = "Gene end (bp)" -> "End"
      [] OTHER -> c

RenameReference(df) ==
    Rename(df, [c \in Range(df.columns) |-> column_map(c)])

\* the body of the try block: [raised, df]
ReferenceTry(f) ==
    IF f.err # "None" THEN [raised |-> Raise("ParseError"), df |-> None]
    ELSE LET df == ReadRef(f)
         IN  IF Empty(df) THEN [raised |-> Raise("EmptyReference"), df |-> None]
             ELSE [raised |-> NoError, df |-> Some(RenameReference(df))]

\* the call's outcome: [raised, reference, ret]
load_reference(files, self_reference, genome_path) ==
    LET fail(e) == [raised |-> e, reference |-> self_reference, ret |-> None]
    IN  IF genome_path = None \/ Len(genome_path[1]) = 0
        THEN fail(Raise("NoReferencePath"))
        ELSE IF genome_path[1] \notin DOMAIN files \/ ~files[genome_path[1]].exists
        THEN fail(Raise("ReferenceFileNotFound"))
        ELSE LET try == ReferenceTry(files[genome_path[1]])
             IN  IF try.raised # NoError
                 THEN fail(Wrap("ReferenceLoadError", try.raised))
                 ELSE [raised |-> NoError, reference |-> try.df, ret |-> try.df]

----------------------------------------------------------------------------
(* The paths and headers the calls are given. *)

PathA == <<"x", "/", "a", ".", "t">>

PathB == <<"b", ".", "t">>

\* the same base name as PathA, in another directory
PathC == <<"y", "/", "a", ".", "t">>

PathI == <<"a", "B", "_", "c", ".", "t">>

PathJ == <<".", "b">>

PathR == <<"r", ".", "c">>

PathQ == <<"q", ".", "c">>

RefHeaderFull == <<"Gene name", "Chromosome/scaffold name", "Gene start (bp)", "Gene end (bp)">>

RefHeaderPart == <<"Gene start (bp)", "Strand">>

World2(p, P, q, Q) == {(p :> f) @@ (q :> g) : f \in P, g \in Q}

World3(p, P, q, Q, r, R) == {(p :> f) @@ (q :> g) @@ (r :> h) : f \in P, g \in Q, h \in R}

----------------------------------------------------------------------------
(* The pipeline's operations. *)

Init(Worlds) ==
    /\ fs \in Worlds
    /\ samples = EmptyDict
    /\ reference = None
    /\ config = DefaultConfig
    /\ call = [op |-> "__init__"]
    /\ raised = NoError
    /\ failed_files = << >>
    /\ ret = None

LoadBedFiles(BedLists, CondLists, ModLists) ==
    \E bedfiles \in BedLists, conditions \in CondLists, modifications \in ModLists :
        \E out \in {load_bed_files(fs, samples, bedfiles, conditions, modifications)} :
            /\ call' = [op |-> "load_bed_files", bedfiles |-> bedfiles,
                        conditions |-> conditions, modifications |-> modifications]
            /\ samples' = out.samples
            /\ raised' = out.raised
            /\ failed_files' = out.failed_files
            /\ ret' = None
            /\ UNCHANGED <<fs, reference, config>>

FilterSamples(ConfigArgs) ==
    \E arg \in ConfigArgs :
        \E out \in {filter_samples(samples, config, arg)} :
            /\ call' = [op |-> "filter_samples", config |-> arg]
            /\ samples' = out.samples
            /\ config' = out.config
            /\ raised' = out.raised
            /\ failed_files' = << >>
            /\ ret' = None
            /\ UNCHANGED <<fs, reference>>

LoadReference(PathArgs) ==
    \E genome_path \in PathArgs :
        \E out \in {load_reference(fs, reference, genome_path)} :
            /\ call' = [op |-> "load_reference", genome_path |-> genome_path]
            /\ reference' = out.reference
            /\ raised' = out.raised
            /\ ret' = out.ret
            /\ failed_files' = << >>
            /\ UNCHANGED <<fs, samples, config>>

\* a direct call of the public method on a table of the caller's
StandardizeColumns(Tables) ==
    \E df \in Tables :
        /\ call' = [op |-> "standardize_columns", df |-> df]
        /\ ret' = Some(standardize_columns(df))
        /\ raised' = NoError
        /\ failed_files' = << >>
        /\ UNCHANGED <<fs, samples, reference, config>>

\* the caller puts a newly constructed BedSample(name), which has no table, into
\* the mapping under a key not in use
AddSample(Names) ==
    \E name \in Names :
        /\ name \notin Keys(samples)
        /\ call' = [op |-> "BedSample", name |-> name]
        /\ samples' = DictSet(samples, name, BedSample(name))
        /\ raised' = NoError
        /\ failed_files' = << >>
        /\ ret' = None
        /\ UNCHANGED <<fs, reference, config>>

----------------------------------------------------------------------------
(* The inputs the specifications draw from. *)

\* the arguments Filterconfig is constructed with
ConfigArgs ==
    {Filterconfig(a[1], a[2]) :
        a \in {<<-1, 10>>, <<0, 0>>, <<20, 10>>, <<21, 10>>, <<20, 101>>, <<20, -1>>}}

\* the configurations whose construction succeeds
Configs == {c \in ConfigArgs : PostInitOk(c)}

FilterArgs == {None} \cup {Some(c) : c \in Configs}

\* the tables of full width a sample file may hold
FullTables == {BedFile(11, cells) : cells \in SeqsUpTo(RowKinds, MaxRows) \ {<< >>}}

\* files too narrow to hold Percent_Modified, or Score
NarrowTables == {BedFile(3, << <<20, 10>> >>), BedFile(5, << <<20, 10>> >>)}

BedLists == SeqsUpTo({PathA, PathB}, MaxFiles)

----------------------------------------------------------------------------
(* The pipeline: every operation, on two sample files and a reference. *)

\* tables whose rows are just below or at the default coverage threshold
CoverageTables ==
    {BedFile(11, cells) : cells \in SeqsUpTo({<<19, 10>>, <<20, 10>>}, MaxRows) \ {<< >>}}

Worlds ==
    World3(PathA, {MissingFile} \cup CoverageTables,
           PathB, {BedFile(11, << <<19, 10>> >>)},
           PathR, {RefFile(RefHeaderFull, 1)})

Next ==
    \/ LoadBedFiles(BedLists, {None}, {None})
    \/ FilterSamples(FilterArgs)
    \/ LoadReference({None, Some(PathR)})
    \/ AddSample({<<"g">>})

Spec == Init(Worlds) /\ [][Next]_vars

----------------------------------------------------------------------------
(* Loading and filtering, over every table of up to MaxRows rows. *)

FilterWorlds ==
    World2(PathA, {MissingFile} \cup NarrowTables \cup FullTables,
           PathB, {MissingFile, BedFile(5, << <<20, 10>> >>),
                   BedFile(11, << <<19, 10>> >>)})

NextFilter ==
    \/ LoadBedFiles(BedLists, {None}, {None})
    \/ FilterSamples(FilterArgs)

SpecFilter == Init(FilterWorlds) /\ [][NextFilter]_vars

----------------------------------------------------------------------------
(* Loading, over every kind of file at three paths, two of one base name.  *)

LoadFiles ==
    {MissingFile, EmptyDataFile, UnreadableFile, BedFile(11, << >>),
     BedFile(11, << <<20, 10>> >>), BedFile(3, << <<20, 10>> >>)}

LoadWorlds == World3(PathA, LoadFiles, PathB, LoadFiles, PathC, LoadFiles)

NextLoad == LoadBedFiles(SeqsUpTo({PathA, PathB, PathC}, MaxFiles), {None}, {None})

SpecLoad == Init(LoadWorlds) /\ [][NextLoad]_vars

----------------------------------------------------------------------------
(* Condition and modification inference, over candidate lists.             *)

\* "", "AB", "b", "ca"
CandStrings == {<< >>, <<"A", "B">>, <<"b">>, <<"c", "a">>}

CandLists == {None} \cup {Some(l) : l \in SeqsUpTo(CandStrings, MaxCands)}

ModLists == {None, Some(<< <<"C">>, <<"b">> >>)}

InferPaths == {PathA, PathI, PathJ}

InferWorlds == {[p \in InferPaths |-> BedFile(11, << <<20, 10>> >>)]}

NextInfer == LoadBedFiles({<<p>> : p \in InferPaths}, CandLists, ModLists)

SpecInfer == Init(InferWorlds) /\ [][NextInfer]_vars

----------------------------------------------------------------------------
(* standardize_columns, over raw tables 0 to MaxWidth columns wide.        *)

RawTables == {RawTable(n, cells) : n \in 0..MaxWidth, cells \in SeqsUpTo(RowKinds, MaxRows)}

NextStd == StandardizeColumns(RawTables)

SpecStd == Init({<< >>}) /\ [][NextStd]_vars

----------------------------------------------------------------------------
(* load_reference, over every kind of reference file.                      *)

RefFiles ==
    {MissingFile, EmptyDataFile, UnreadableFile}
    \cup {RefFile(h, n) : h \in {RefHeaderFull, RefHeaderPart}, n \in 0..MaxRows}

RefWorlds == World2(PathR, RefFiles, PathQ, {MissingFile, RefFile(RefHeaderPart, 1)})

NextRef == LoadReference({None, Some(<< >>), Some(PathR), Some(PathQ)})

SpecRef == Init(RefWorlds) /\ [][NextRef]_vars

----------------------------------------------------------------------------
(* What the claims speak of. *)

IsFilterStep == call'.op = "filter_samples"

\* the sample has a table with at least one row and one column
Validated(sample) == sample.dataframe # None /\ ~Empty(sample.dataframe[1])

\* the sample has a table, and the table has no rows
ZeroRows(sample) == sample.dataframe # None /\ Empty(sample.dataframe[1])

LacksColumn(sample) ==
    /\ Validated(sample)
    /\ \/ "Score" \notin Range(sample.dataframe[1].columns)
       \/ "Percent_Modified" \notin Range(sample.dataframe[1].columns)

\* the sample makes the loop of filter_samples raise
Offending(sample) == ZeroRows(sample) \/ LacksColumn(sample)

\* the configuration a filter step works with: the one passed, else the stored one
Effective == IF call'.config # None THEN call'.config[1] ELSE config

\* the rows of df at or above both thresholds of cfg, in order
Passing(df, cfg) ==
    LET score == ColumnIndex(df, "Score")
        percent == ColumnIndex(df, "Percent_Modified")
        Passes(row) == row[score] >= cfg.min_coverage
                       /\ row[percent] >= cfg.min_modification_frequency
    IN  SelectSeq(df.rows, Passes)

\* after is before, filtered under cfg, with the statistics of that filtering
FilteredFrom(before, after, cfg) ==
    /\ after.dataframe # None
    /\ after.dataframe[1].columns = before.dataframe[1].columns
    /\ after.dataframe[1].rows = Passing(before.dataframe[1], cfg)
    /\ after.filter_stats # None
    /\ after.filter_stats[1].original_count = Len(before.dataframe[1].rows)
    /\ after.filter_stats[1].filtered_count = Len(after.dataframe[1].rows)
    /\ after.name = before.name
    /\ after.condition = before.condition
    /\ after.modification = before.modification

----------------------------------------------------------------------------
(* C1: a successful filter_samples call replaces the table of every sample *)
(* that passes validation by exactly its rows with Score >= min_coverage   *)
(* and Percent_Modified >= min_modification_frequency (a row equal to a    *)
(* threshold is kept), under the configuration passed to the call, else    *)
(* the stored one; the stored one is the default until a call that gets    *)
(* past the NoSamplesLoaded check is passed one, and changes in no other   *)
(* way.  original_count and filtered_count are the row counts before and   *)
(* after.                                                                  *)

C1_Step ==
    /\ (IsFilterStep /\ raised' = NoError) =>
          /\ config' = Effective
          /\ \A name \in Keys(samples) :
                Validated(samples.rec[name]) =>
                    FilteredFrom(samples.rec[name], samples'.rec[name], Effective)
    /\ config' # config =>
          /\ IsFilterStep
          /\ call'.config = Some(config')
          /\ raised'.kind # "NoSamplesLoaded"

C1_FilterKeepsPassingRows == config = DefaultConfig /\ [][C1_Step]_vars

\* a successful call, passed no configuration, has kept a row that equals
\* both stored thresholds and removed another
C1_Witness ==
    /\ call.op = "filter_samples" /\ call.config = None /\ raised = NoError
    /\ \E name \in Keys(samples) :
          /\ samples.rec[name].filter_stats # None
          /\ samples.rec[name].filter_stats[1].removed_count > 0
          /\ \E r \in 1..Len(samples.rec[name].dataframe[1].rows) :
                LET df == samples.rec[name].dataframe[1]
                IN  /\ Cell(df, df.rows[r], "Score") = config.min_coverage
                    /\ Cell(df, df.rows[r], "Percent_Modified")
                           = config.min_modification_frequency

----------------------------------------------------------------------------
(* C3: filtering is idempotent -- a filter_samples call made right after a *)
(* successful filter_samples call, with the same configuration argument,   *)
(* succeeds and leaves every sample's table with the same rows, whatever   *)
(* the tables hold, also when the first call removed every row of one.     *)

C3_Step ==
    (/\ call.op = "filter_samples" /\ raised = NoError
     /\ IsFilterStep /\ call'.config = call.config) =>
        /\ raised' = NoError
        /\ \A name \in Keys(samples) :
              samples'.rec[name].dataframe = samples.rec[name].dataframe

C3_FilterIdempotent == [][C3_Step]_vars

----------------------------------------------------------------------------
(* C5: when a sample that passes validation has a table without the Score  *)
(* or the Percent_Modified column, filter_samples does not succeed; it     *)
(* fails with MissingColumn when it reaches that sample (no sample before  *)
(* it in the mapping makes the call fail), and whatever the call does,     *)
(* that sample keeps its table and gets no filter statistics.              *)

C5_Step ==
    IsFilterStep =>
        \A i \in 1..Len(samples.order) :
            LacksColumn(samples.rec[samples.order[i]]) =>
                /\ samples'.rec[samples.order[i]] = samples.rec[samples.order[i]]
                /\ raised' # NoError
                /\ (\A j \in 1..(i - 1) : ~Offending(samples.rec[samples.order[j]]))
                      => raised'.kind = "MissingColumn"

C5_MissingColumnAborts == [][C5_Step]_vars

\* a call has failed with MissingColumn on a sample that has Score but not
\* Percent_Modified, after filtering the sample before it
C5_Witness ==
    /\ call.op = "filter_samples" /\ raised.kind = "MissingColumn"
    /\ Len(samples.order) = 2
    /\ samples.rec[samples.order[1]].filter_stats # None
    /\ LET second == samples.rec[samples.order[2]]
       IN  /\ second.filter_stats = None
           /\ "Score" \in Range(second.dataframe[1].columns)
           /\ "Percent_Modified" \notin Range(second.dataframe[1].columns)

----------------------------------------------------------------------------
(* C10: a filter_samples call that fails on a sample (a table with no rows *)
(* or without Score or Percent_Modified) is not rolled back: the stored    *)
(* configuration is the one passed to the call, when one was passed; every *)
(* sample before the offending one that passes validation has its filtered *)
(* table and the statistics of this filtering; the offending sample and    *)
(* those after it are as they were.  A call that fails with                *)
(* NoSamplesLoaded changes nothing of the pipeline, the stored             *)
(* configuration included.                                                 *)

\* the index of the first sample that makes the loop raise
FirstOffending ==
    CHOOSE i \in 1..Len(samples.order) :
        /\ Offending(samples.rec[samples.order[i]])
        /\ \A j \in 1..(i - 1) : ~Offending(samples.rec[samples.order[j]])

C10_Step ==
    /\ (IsFilterStep /\ raised'.kind \in {"EmptyDataframe", "MissingColumn"}) =>
          /\ config' = Effective
          /\ samples'.order = samples.order
          /\ \A i \in 1..Len(samples.order) :
                LET before == samples.rec[samples.order[i]]
                    after == samples'.rec[samples.order[i]]
                IN  IF i < FirstOffending /\ Validated(before)
                    THEN FilteredFrom(before, after, Effective)
                    ELSE after = before
    /\ (IsFilterStep /\ raised'.kind = "NoSamplesLoaded") => UNCHANGED pipeline

C10_AbortKeepsPartialWork == [][C10_Step]_vars

\* a call passed a configuration other than the stored default has failed on
\* the second sample, having filtered rows out of the first
C10_Witness ==
    /\ call.op = "filter_samples"
    /\ raised.kind \in {"EmptyDataframe", "MissingColumn"}
    /\ call.config = Some(config) /\ config # DefaultConfig
    /\ Len(samples.order) = 2
    /\ samples.rec[samples.order[1]].filter_stats # None
    /\ samples.rec[samples.order[1]].filter_stats[1].removed_count > 0
    /\ samples.rec[samples.order[2]].filter_stats = None

----------------------------------------------------------------------------
(* C2: in every state of the pipeline, whatever calls of load_bed_files,   *)
(* filter_samples and load_reference led to it and however they ended,     *)
(* every sample with filter statistics has 0 <= filtered_count <=          *)
(* original_count, removed_count = original_count - filtered_count, and    *)
(* removal_percentage = removed_count / original_count * 100 when          *)
(* original_count > 0 and 0 otherwise, which lies between 0 and 100.       *)

StatisticsConsistent(st) ==
    /\ 0 <= st.filtered_count /\ st.filtered_count <= st.original_count
    /\ st.removed_count = st.original_count - st.filtered_count
    /\ st.removal_percentage.den > 0
    /\ IF st.original_count > 0
       THEN st.removal_percentage.num * st.original_count
                = st.removed_count * 100 * st.removal_percentage.den
       ELSE st.removal_percentage.num = 0
    /\ 0 <= st.removal_percentage.num
    /\ st.removal_percentage.num <= 100 * st.removal_percentage.den

C2_StatisticsConsistent ==
    \A name \in Keys(samples) :
        samples.rec[name].filter_stats # None =>
            StatisticsConsistent(samples.rec[name].filter_stats[1])

\* a call of load_reference has followed a filtering that removed some rows of
\* a sample and kept others
C2_Witness ==
    /\ call.op = "load_reference"
    /\ \E name \in Keys(samples) :
          /\ samples.rec[name].filter_stats # None
          /\ samples.rec[name].filter_stats[1].removed_count > 0
          /\ samples.rec[name].filter_stats[1].filtered_count > 0

----------------------------------------------------------------------------
(* C6: in filter_samples a sample with no table is skipped -- it stays as  *)
(* it was, table absent and filter_stats unchanged, and does not make the  *)
(* call fail: the call fails only if the mapping is empty or some sample   *)
(* has a table with no rows or without a needed column.  A sample whose    *)
(* table is present and has no rows makes validation raise, which fails    *)
(* the whole call (with that error when no sample before it fails the      *)
(* call) and leaves that sample as it was.                                 *)

C6_Step ==
    IsFilterStep =>
        /\ \A name \in Keys(samples) :
              samples.rec[name].dataframe = None =>
                  samples'.rec[name] = samples.rec[name]
        /\ raised' # NoError =>
              \/ Keys(samples) = {}
              \/ \E name \in Keys(samples) : Offending(samples.rec[name])
        /\ \A i \in 1..Len(samples.order) :
              ZeroRows(samples.rec[samples.order[i]]) =>
                  /\ raised' # NoError
                  /\ samples'.rec[samples.order[i]] = samples.rec[samples.order[i]]
                  /\ (\A j \in 1..(i - 1) : ~Offending(samples.rec[samples.order[j]]))
                        => raised'.kind = "EmptyDataframe"

C6_ValidateAsymmetry == [][C6_Step]_vars

\* a call has succeeded on a mapping that holds a sample without a table, and
\* has emptied the table of another sample
C6_Witness ==
    /\ call.op = "filter_samples" /\ raised = NoError
    /\ \E name \in Keys(samples) :
          /\ samples.rec[name].dataframe = None
          /\ samples.rec[name].filter_stats = None
    /\ \E name \in Keys(samples) :
          /\ ZeroRows(samples.rec[name])
          /\ samples.rec[name].filter_stats # None

----------------------------------------------------------------------------
(* C4: load_bed_files classifies each path as loaded or failed (no file,   *)
(* empty content, a read error) by that path's file alone: failed_files is *)
(* the paths of the list that fail, whatever else the list holds and in    *)
(* whatever order.  The call fails with NoInputFiles iff the list is       *)
(* empty, with NoValidFiles iff it is not empty and every path failed, and *)
(* otherwise succeeds with records for exactly the base names of the paths *)
(* that loaded, each holding the standardized table of such a path.        *)

\* the file at the path exists, parses, and has a row
Loads(path) ==
    /\ fs[path].exists
    /\ fs[path].err = "None"
    /\ Len(fs[path].text.cells) > 0

Fails(path) == ~Loads(path)

C4_LoadClassifiesEachPath ==
    call.op = "load_bed_files" =>
        LET bedfiles == call.bedfiles
            loaded == {p \in Range(bedfiles) : Loads(p)}
        IN  /\ raised.kind \in {"None", "NoInputFiles", "NoValidFiles"}
            /\ raised.kind = "NoInputFiles" <=> bedfiles = << >>
            /\ raised.kind = "NoValidFiles" <=> (bedfiles # << >> /\ loaded = {})
            /\ failed_files = SelectSeq(bedfiles, Fails)
            /\ raised = NoError =>
                  /\ Keys(samples) = {FileName(p) : p \in loaded}
                  /\ \A name \in Keys(samples) :
                        /\ samples.rec[name].name = name
                        /\ \E p \in loaded :
                              /\ FileName(p) = name
                              /\ samples.rec[name].dataframe
                                     = Some(standardize_columns(ReadBed(fs[p])))

\* a call has succeeded although the first path of its list failed, with a
\* file that exists, and a later one loaded
C4_Witness ==
    /\ call.op = "load_bed_files" /\ raised = NoError
    /\ Len(call.bedfiles) >= 2
    /\ fs[call.bedfiles[1]].exists
    /\ failed_files = <<call.bedfiles[1]>>
    /\ FileName(call.bedfiles[2]) \in Keys(samples)

----------------------------------------------------------------------------
(* C7: the condition, and likewise the modification, that load_bed_files   *)
(* gives a sample is the first candidate of the caller's list whose        *)
(* lower-cased form occurs in the lower-cased base name without extension, *)
(* in the caller's spelling, also when later candidates match; it is unset *)
(* when no candidate matches or the list is absent or empty.               *)

\* s is a contiguous part of t
Occurs(s, t) == \E a \in 0..Len(t), b \in 0..Len(t) : a <= b /\ SubSeq(t, a + 1, b) = s

Matches(cand, name) == Occurs(Lower(cand), Lower(name))

FirstMatch(opt, name) ==
    IF opt = None THEN None
    ELSE LET hits == {i \in 1..Len(opt[1]) : Matches(opt[1][i], name)}
         IN  IF hits = {} THEN None
             ELSE Some(opt[1][CHOOSE i \in hits : \A j \in hits : i <= j])

C7_FirstMatchWins ==
    (call.op = "load_bed_files" /\ raised = NoError) =>
        \A name \in Keys(samples) :
            /\ samples.rec[name].condition = FirstMatch(call.conditions, name)
            /\ samples.rec[name].modification = FirstMatch(call.modifications, name)

\* a sample has got the first of two matching candidates, one spelled in another
\* case than the file name spells it
C7_Witness ==
    /\ call.op = "load_bed_files" /\ raised = NoError
    /\ \E name \in Keys(samples) :
          /\ call.conditions # None /\ Len(call.conditions[1]) = 2
          /\ samples.rec[name].condition = Some(call.conditions[1][1])
          /\ call.conditions[1][1] # call.conditions[1][2]
          /\ Matches(call.conditions[1][2], name)
          /\ ~Occurs(call.conditions[1][1], name)

----------------------------------------------------------------------------
(* C8: for a raw table n >= 0 columns wide, standardize_columns does not   *)
(* fail and returns the table whose columns are those of Chromosome        *)
(* (position 0), Start (1), End (2), Score (4), Percent_Modified (10) with *)
(* a position below n, in that order, each holding the cells of its        *)
(* position, row by row: no column is invented, every other is dropped.    *)

EssentialPosition(col) ==
    CASE col = "Chromosome" -> 0
      [] col = "Start" -> 1
      [] col = "End" -> 2
      [] col = "Score" -> 4
      [] col = "Percent_Modified" -> 10

C8_StandardizeKeepsEssential ==
    call.op = "standardize_columns" =>
        /\ raised = NoError
        /\ ret # None
        /\ LET df == call.df
               out == ret[1]
               Present(col) == EssentialPosition(col) < Len(df.columns)
           IN  /\ out.columns =
                      SelectSeq(<<"Chromosome", "Start", "End", "Score", "Percent_Modified">>,
                                Present)
               /\ Len(out.rows) = Len(df.rows)
               /\ \A r \in 1..Len(out.rows) :
                     /\ Len(out.rows[r]) = Len(out.columns)
                     /\ \A k \in 1..Len(out.columns) :
                           out.rows[r][k] = df.rows[r][EssentialPosition(out.columns[k]) + 1]

\* a table three columns wide, with a row, has come back as Chromosome, Start, End
C8_Witness ==
    /\ call.op = "standardize_columns"
    /\ Len(call.df.columns) = 3 /\ Len(call.df.rows) > 0
    /\ ret # None
    /\ ret[1].columns = <<"Chromosome", "Start", "End">>

----------------------------------------------------------------------------
(* C9: load_reference reports each failure as its own kind of error:       *)
(* NoReferencePath for an empty or absent path, ReferenceFileNotFound for  *)
(* a path that does not exist, EmptyReference for a file that parses to a  *)
(* table with no rows, and ReferenceLoadError only for other failures to   *)
(* parse.                                                                  *)

C9_DistinctErrorKinds ==
    call.op = "load_reference" =>
        LET genome_path == call.genome_path
            given == genome_path # None /\ Len(genome_path[1]) > 0
            f == fs[genome_path[1]]
        IN  /\ ~given => raised.kind = "NoReferencePath"
            /\ (given /\ ~f.exists) => raised.kind = "ReferenceFileNotFound"
            /\ (given /\ f.exists /\ f.err = "None" /\ f.text.n_rows = 0)
                  => raised.kind = "EmptyReference"
            /\ (given /\ f.exists /\ f.err # "None")
                  => raised.kind = "ReferenceLoadError"
            /\ raised.kind = "ReferenceLoadError"
                  => (given /\ f.exists /\ f.err # "None")

====
